---- MODULE Spec2Model ----
(***************************************************************************)
(* The script virtual machine of another-world (src/src/vm.rs) and the     *)
(* video pages and polygons it drives (src/src/video.rs): the 64           *)
(* cooperative script threads, the two-phase commit of thread requests     *)
(* (check_thread_requests), the frame loop (host_frame), the opcode        *)
(* interpreter (execute_thread) with its call stack, variables, page       *)
(* opcodes, frame pacing and polygon decoding.                             *)
(*                                                                         *)
(* The bytecode is an input of the machine: every fetch_byte / fetch_word  *)
(* advances script_ptr as the code does and yields a value drawn from a    *)
(* small set that holds the values the code treats specially. So are the   *)
(* polygon data, the clock and whether the build aborts on an arithmetic   *)
(* overflow or wraps.                                                      *)
(***************************************************************************)
EXTENDS Integers, Sequences, FiniteSets, TLC

VARIABLES
    variables,            \* VirtualMachine.variables (the slots in VarIds)
    threads,              \* VirtualMachine.threads
    requested_next_part,  \* VirtualMachine.requested_next_part
    script_ptr,           \* VirtualMachine.script_ptr
    stack_ptr,            \* VirtualMachine.stack_ptr
    goto_next_thread,     \* VirtualMachine.goto_next_thread
    script_stack_calls,   \* VirtualMachine.script_stack_calls
    seg_bytecode,         \* Resource.seg_bytecode
    phase,                \* where the caller is: "idle", "frame" (the loop of
                          \* host_frame), "slice" (inside execute_thread)
    thread_id,            \* loop variable of host_frame
    panic,                \* "" or the reason the process aborted
    pages,                \* Video.pages (the first PageLen bytes of each)
    cur_page_ptr1,        \* Video.cur_page_ptr1, the draw target
    cur_page_ptr2,        \* Video.cur_page_ptr2
    cur_page_ptr3,        \* Video.cur_page_ptr3
    video_buffer_seg,     \* VirtualMachine.video_buffer_seg
    last_timestamp,       \* VirtualMachine.last_timestamp
    clock,                \* SDLSys.timestamp.elapsed(), in milliseconds
    \* history variables, read by the properties only
    last_call,            \* the public method that returned last
    frames,               \* number of host_frame calls so far
    ops,                  \* opcodes executed in the current slice
    last_op,              \* the opcode executed last in the current slice
    snap,                 \* threads as they were when host_frame was entered
                          \* (those that differed from a new thread)
    ran,                  \* slices of this frame: <<[id, start, saved]>>
    calls,                \* open calls of the slice: <<[ret, sp]>>
    popped,               \* the call the last opcode, a ret, returned from
    paused,               \* the offset each paused thread paused at
    killed,               \* the threads killed and not revived since
    jnz_log,              \* the jnz executed so far: <<[before, jumped]>>
    effect,               \* what the opcode executed last fetched and did
    staged,               \* the redirects executed since host_frame was
                          \* entered last: for each target, the offset of
                          \* the one executed last
    loaded_part,          \* the part init_for_part has loaded since the last
                          \* host_frame returned, None when it has not run
    redirected            \* the threads a redirect was committed for since
                          \* init_for_part ran last

vars == <<variables, threads, requested_next_part, script_ptr, stack_ptr,
          goto_next_thread, script_stack_calls, seg_bytecode, phase,
          thread_id, panic, pages, cur_page_ptr1, cur_page_ptr2,
          cur_page_ptr3, video_buffer_seg, last_timestamp, clock, last_call,
          frames, ops, last_op, snap, ran, calls, popped, paused, killed,
          jnz_log, effect, staged, loaded_part, redirected>>

-----------------------------------------------------------------------------
(* Program constants *)

NUM_THREADS == 64
SET_INACTIVE_THREAD == 65534
INACTIVE_THREAD == 65535
STACK_SIZE == 255
GAME_PART_FIRST == 16000
DEFAULT_ZOOM == 64
MAX_POINTS == 50
VM_VARIABLE_RANDOM_SEED == 60
VM_VARIABLE_PAUSE_SLICES == 255

\* Option::None of requested_pc_offset and requested_next_part
None == -1

(* Bounds of the model *)

\* host_frame calls explored
MaxFrames == 2
\* opcodes other than pause/kill explored in one slice
MaxOps == 1
\* opcodes explored in one slice under SpecStack, in any mix
MaxStackOps == 4
\* opcodes other than pause explored in one slice under SpecVars
MaxVarOps == 2
\* cond_jmp is explored among the first MaxCondOps opcodes of a slice
MaxCondOps == 1
\* opcodes other than pause explored in one slice under SpecVideo
MaxVideoOps == 2
\* bytes of a video page explored (a page has VID_PAGE_SIZE = 32000)
PageLen == 2
\* draw_poly_sprite explored in one slice under SpecDraw
MaxDrawOps == 1
MaxLoadOps == 2

ThreadIds == 0 .. (NUM_THREADS - 1)

\* the variable slots the modelled operations touch: the random seed, the
\* slot init_for_part writes, the slot op_blit_frame_buffer clears and the
\* pacing variable
VarIds == {VM_VARIABLE_RANDOM_SEED, 228, 247, VM_VARIABLE_PAUSE_SLICES}

\* values random::<i16>() can give the seed
Seeds == {-32768, 0, 3, 5}

\* operands the bytecode supplies
ThreadOperands == {0, NUM_THREADS - 1, NUM_THREADS}
JmpTargets == {16, SET_INACTIVE_THREAD}
CallTargets == {16}
VectOffsets == {16, SET_INACTIVE_THREAD}
ResourceIds == {0, 1, GAME_PART_FIRST}
\* update_memlist under SpecLoader: the ids on both sides of the lowest part
MemlistIds == {0, 1, GAME_PART_FIRST - 1, GAME_PART_FIRST, GAME_PART_FIRST + 1}
\* jnz: the counter
JnzVars == {VM_VARIABLE_RANDOM_SEED}
\* cond_jmp: the condition bytes (a comparator and an operand source) and,
\* for each, what follows the variable byte
CondOpcodes == {c + s : c \in 0 .. 7, s \in {0, 64, 128, 192}}
CondOperands(opcode) ==
    IF opcode >= 128 THEN {VM_VARIABLE_RANDOM_SEED, 228}
    ELSE IF opcode >= 64 THEN {5, 65531}
    ELSE {5, 251}
\* page bytes: pages, an id that names none, the two aliases
PageOperands == {1, 3, 4, 254, 255}
\* fill_video_page and blit_frame_buffer: a page and an alias
FillOperands == {1, 255}
\* color bytes
ColorOperands == {0, 6}
\* mov_const: the pacing variable and the words written to it
MovVars == {VM_VARIABLE_PAUSE_SLICES}
MovWords == {1, 65535}
\* milliseconds between two readings of the clock
Elapsed == {0, 1, 25}
\* draw_poly_sprite: the six discriminator bits of val
DrawVals == 0 .. 63
\* the offset word: one that `* 2` keeps in 16 bits and, under the first
\* discriminator, one it does not
OffsetWords(val) == IF val = 0 THEN {8, 32768} ELSE {8}
\* the first byte of x and of y: the index of a variable when the field is
\* indirect
DrawOperands(indirect) == IF indirect THEN {228} ELSE {255}
\* the zoom byte
ZoomOperands(indirect) == IF indirect THEN {228} ELSE {64, 129}
\* the polygon segment at the offset: a discriminator that is neither a
\* polygon nor a hierarchy, a hierarchy, and polygons of 0, 2, 3 and 50
\* vertices; pts are the pairs of bytes the buffer holds after the count
NotAPolygon == [i |-> 0, bbw |-> 0, bbh |-> 0, num_points |-> 0, pts |-> <<>>]
Polygons ==
    {NotAPolygon,
     [i |-> 2, bbw |-> 0, bbh |-> 0, num_points |-> 0, pts |-> <<>>],
     [i |-> 192, bbw |-> 255, bbh |-> 1, num_points |-> 0, pts |-> <<>>],
     [i |-> 192, bbw |-> 255, bbh |-> 1, num_points |-> 2,
      pts |-> <<<<255, 1>>, <<1, 255>>, <<7, 9>>>>],
     [i |-> 192, bbw |-> 255, bbh |-> 1, num_points |-> 3,
      pts |-> <<<<255, 1>>, <<1, 255>>, <<7, 9>>>>],
     [i |-> 192, bbw |-> 255, bbh |-> 1, num_points |-> 50,
      pts |-> <<<<255, 1>>, <<1, 255>>, <<7, 9>>>>]}
\* what the offset names: every polygon under the discriminators that take
\* x and y as words (the four ways to give the zoom), no polygon under the
\* others
PolygonsAt(val) == IF val < 4 THEN Polygons ELSE {NotAPolygon}
\* the part the host loads first
PartIds == {GAME_PART_FIRST + 1}
\* resource.setup_part: where the loader places the bytecode of a part
SegOfPart(part_id) == 4096 * (1 + part_id - GAME_PART_FIRST)

-----------------------------------------------------------------------------
(* Integers of the widths the code uses *)

\* a value as i16, wrapped to 16 bits (wrapping_sub, `as i16`)
AsI16(x) == ((x + 32768) % 65536) - 32768

\* a value as u16, wrapped to 16 bits (`as u16`)
AsU16(x) == x % 65536

\* x & mask > 0, for a mask of one bit
BitSet(x, mask) == (x \div mask) % 2 = 1

\* a | b
RECURSIVE BitOr(_, _)
BitOr(a, b) ==
    IF a = 0 THEN b
    ELSE IF b = 0 THEN a
         ELSE (IF a % 2 = 1 \/ b % 2 = 1 THEN 1 ELSE 0)
                 + 2 * BitOr(a \div 2, b \div 2)

\* A u64 is written as an integer r that stands for r modulo 2^64: r >= 0 is
\* the value r, r < 0 the value 2^64 + r that a wrapped operation leaves.
\* a < b as u64
U64Less(a, b) ==
    IF (a >= 0) = (b >= 0) THEN a < b ELSE a >= 0

-----------------------------------------------------------------------------
(* Thread *)

ThreadNew ==
    [pc |-> INACTIVE_THREAD,
     requested_pc_offset |-> None,
     is_channel_active_current |-> FALSE,
     is_channel_active_requested |-> FALSE]

\* mutant: the loop leaves the pending redirects in place
InitForPartThreadsKeepRequests ==
    [t \in ThreadIds |->
        [pc |-> IF t = 0 THEN 0 ELSE 65535,
         requested_pc_offset |-> threads[t].requested_pc_offset,
         is_channel_active_current |-> FALSE,
         is_channel_active_requested |-> FALSE]]

\* mutant: only thread 0 is reset
InitForPartThreadsOthersKept ==
    [t \in ThreadIds |->
        IF t = 0
        THEN [pc |-> 0, requested_pc_offset |-> None,
              is_channel_active_current |-> FALSE,
              is_channel_active_requested |-> FALSE]
        ELSE threads[t]]

\* the loop of init_for_part followed by threads[0].pc = 0
InitForPartThreads ==
    [t \in ThreadIds |->
        [pc |-> IF t = 0 THEN 0 ELSE 65535,
         requested_pc_offset |-> None,
         is_channel_active_current |-> FALSE,
         is_channel_active_requested |-> FALSE]]

\* mutant: the deactivation sentinel committed as an offset like any other
CommitThreadNoSentinel(th) ==
    [pc |-> IF th.requested_pc_offset # None
            THEN th.requested_pc_offset
            ELSE th.pc,
     requested_pc_offset |-> None,
     is_channel_active_current |-> th.is_channel_active_requested,
     is_channel_active_requested |-> th.is_channel_active_requested]

\* the body of the loop of check_thread_requests, for one thread
CommitThread(th) ==
    [pc |-> IF th.requested_pc_offset # None
            THEN IF th.requested_pc_offset = SET_INACTIVE_THREAD
                 THEN INACTIVE_THREAD
                 ELSE th.requested_pc_offset
            ELSE th.pc,
     requested_pc_offset |-> None,
     is_channel_active_current |-> th.is_channel_active_requested,
     is_channel_active_requested |-> th.is_channel_active_requested]

\* mutant: the loop passes over the threads whose flag is clear
SkipsThreadInverted(th) == ~th.is_channel_active_current

\* host_frame: `continue` when the thread's current flag is set
SkipsThread(th) == th.is_channel_active_current

\* host_frame: a thread that is not skipped runs a slice unless n == INACTIVE_THREAD
RunsSlice(th) == ~SkipsThread(th) /\ th.pc # INACTIVE_THREAD

\* mutant: the slice starts at the pc taken as an address
SliceStartPtrNoBase(th) == th.pc

\* host_frame: script_ptr at the start of the slice
SliceStartPtr(th) == seg_bytecode + th.pc

\* mutant: the slice starts on the stack the last slice left
SliceStartStackPtrKept == stack_ptr

\* host_frame: stack_ptr at the start of the slice
SliceStartStackPtr == 0

\* mutant: the cursor saved without taking the segment base off
SavedPcAbsolute == script_ptr

\* host_frame: the pc saved when execute_thread returns
SavedPc == script_ptr - seg_bytecode

\* mutant: the return address taken before the operand word is fetched
ReturnAddressAtOperand == (script_ptr + 1) - seg_bytecode

\* op_call: the return address pushed, taken once the opcode byte and the
\* operand word are fetched (script_ptr is at the opcode byte)
ReturnAddress == (script_ptr + 3) - seg_bytecode

\* op_call: the slot the return address is written to
PushSlot == stack_ptr

\* op_ret: script_ptr after the pop (stack_ptr already decremented)
RetTarget(sp) == seg_bytecode + script_stack_calls[sp]

\* mutant: kill leaves the cursor at the deactivation request sentinel
KillPtrSetInactive == seg_bytecode + 65534

\* op_kill_thread: script_ptr after kill
KillPtr == seg_bytecode + 65535

NoCall == [ret |-> None, sp |-> None]

NoEffect == [op |-> "none"]

\* Page::new
PageNew == [i \in 0 .. (PageLen - 1) |-> 0]

NoSnap == <<>>

\* the history of a frame: thread t as it was when host_frame was entered
Snap(t) == IF t \in DOMAIN snap THEN snap[t] ELSE ThreadNew

\* the history of a thread: the offset it paused at, if it did
Paused(t) == IF t \in DOMAIN paused THEN paused[t] ELSE None

\* the threads from id `from` on that the loop of host_frame does not pass over
Runnable(from) == {t \in ThreadIds : t >= from /\ RunsSlice(threads[t])}

Min(S) == CHOOSE x \in S : \A y \in S : x <= y

-----------------------------------------------------------------------------
\* VirtualMachine::new and Video::new, the random seed being one of seeds
VirtualMachineNew(seeds) ==
    /\ variables \in {[v \in VarIds |->
                          IF v = VM_VARIABLE_RANDOM_SEED THEN s ELSE 0] :
                      s \in seeds}
    /\ threads = [t \in ThreadIds |-> ThreadNew]
    /\ requested_next_part = None
    /\ script_ptr = 0
    /\ stack_ptr = 0
    /\ goto_next_thread = FALSE
    /\ script_stack_calls = [i \in 0 .. (STACK_SIZE - 1) |-> 0]
    /\ seg_bytecode = 0
    /\ phase = "idle"
    /\ thread_id = 0
    /\ panic = ""
    /\ last_call = "new"
    /\ frames = 0
    /\ ops = 0
    /\ last_op = "none"
    /\ snap = NoSnap
    /\ ran = <<>>
    /\ calls = <<>>
    /\ popped = NoCall
    /\ paused = <<>>
    /\ killed = {}
    /\ jnz_log = <<>>
    /\ effect = NoEffect
    /\ staged = <<>>
    /\ loaded_part = None
    /\ redirected = {}
    /\ pages = [p \in 0 .. 3 |-> PageNew]
    /\ cur_page_ptr1 = 2
    /\ cur_page_ptr2 = 2
    /\ cur_page_ptr3 = 1
    /\ video_buffer_seg = "Cinematic"
    /\ last_timestamp = 0
    /\ clock = 0

\* the scheduler and the call stack never read a variable: one seed
Init == VirtualMachineNew({0})

InitSeeded == VirtualMachineNew(Seeds)

Running == panic = ""

\* the host loop: init_for_part once the machine is built, then
\* check_thread_requests and host_frame in turn, once per frame
MayCall(method) ==
    /\ Running /\ phase = "idle"
    /\ CASE method = "init_for_part" -> last_call = "new"
         [] method = "check_thread_requests" ->
                last_call \in {"init_for_part", "host_frame"}
         [] method = "host_frame" -> last_call = "check_thread_requests"

vmState == <<variables, threads, requested_next_part, script_ptr, stack_ptr,
             goto_next_thread, script_stack_calls, seg_bytecode>>

sliceHistory == <<ops, last_op, calls, popped, effect>>

deviceState == <<pages, cur_page_ptr1, cur_page_ptr2, cur_page_ptr3,
                 video_buffer_seg, last_timestamp, clock>>

-----------------------------------------------------------------------------
(* init_for_part, called by the host when a part is loaded *)

InitForPart(part_id) ==
    /\ MayCall("init_for_part")
    /\ variables' = [variables EXCEPT ![228] = 20]
    /\ seg_bytecode' = SegOfPart(part_id)
    /\ threads' = InitForPartThreads
    /\ last_call' = "init_for_part"
    /\ paused' = <<>>
    /\ killed' = killed \ {0}
    /\ loaded_part' = part_id
    /\ redirected' = {}
    /\ UNCHANGED <<requested_next_part, script_ptr, stack_ptr, goto_next_thread,
                   script_stack_calls, phase, thread_id, panic, frames,
                   sliceHistory, snap, ran, deviceState, jnz_log, staged>>

(* check_thread_requests *)

CheckThreadRequests ==
    /\ MayCall("check_thread_requests")
    /\ LET switch == requested_next_part # None
           reset == IF switch THEN InitForPartThreads ELSE threads
           revived(t) == reset[t].requested_pc_offset \notin
                             {None, SET_INACTIVE_THREAD, INACTIVE_THREAD}
       IN  /\ variables' = IF switch THEN [variables EXCEPT ![228] = 20]
                           ELSE variables
           /\ seg_bytecode' = IF switch THEN SegOfPart(requested_next_part)
                                        ELSE seg_bytecode
           /\ requested_next_part' = None
           /\ threads' = [t \in ThreadIds |-> CommitThread(reset[t])]
           /\ paused' = [t \in {u \in DOMAIN paused :
                                   /\ ~switch
                                   /\ reset[u].requested_pc_offset = None}
                            |-> paused[t]]
           /\ killed' = {t \in killed : ~revived(t) /\ ~(switch /\ t = 0)}
           /\ loaded_part' = IF switch THEN requested_next_part
                                       ELSE loaded_part
           /\ redirected' =
                 IF switch THEN {}
                 ELSE redirected \cup
                         {t \in ThreadIds :
                             threads[t].requested_pc_offset # None}
    /\ last_call' = "check_thread_requests"
    /\ UNCHANGED <<script_ptr, stack_ptr, goto_next_thread, script_stack_calls,
                   phase, thread_id, panic, frames, sliceHistory, snap, ran,
                   deviceState, jnz_log, staged>>

-----------------------------------------------------------------------------
(* host_frame *)

HostFrameBegin ==
    /\ MayCall("host_frame")
    /\ frames < MaxFrames
    /\ phase' = "frame"
    /\ thread_id' = 0
    /\ frames' = frames + 1
    /\ snap' = [t \in {u \in ThreadIds : threads[u] # ThreadNew}
                   |-> threads[t]]
    /\ ran' = <<>>
    /\ staged' = <<>>
    /\ UNCHANGED <<vmState, panic, last_call, sliceHistory, paused, killed,
                   deviceState, jnz_log, loaded_part, redirected>>

\* the loop, from thread_id up to the next call of execute_thread or to its
\* end: the iterations that run no slice change only the loop variable
HostFrameThread ==
    /\ Running /\ phase = "frame"
    /\ thread_id < NUM_THREADS
    /\ IF Runnable(thread_id) # {}
       THEN LET t == Min(Runnable(thread_id))
            IN  /\ thread_id' = t
                /\ script_ptr' = SliceStartPtr(threads[t])
                /\ stack_ptr' = SliceStartStackPtr
                /\ goto_next_thread' = FALSE
                /\ phase' = "slice"
                /\ ran' = Append(ran, [id |-> t,
                                       start |-> script_ptr' - seg_bytecode,
                                       saved |-> None])
       ELSE /\ thread_id' = NUM_THREADS
            /\ UNCHANGED <<script_ptr, stack_ptr, goto_next_thread, phase, ran>>
    /\ UNCHANGED <<variables, threads, requested_next_part, script_stack_calls,
                   seg_bytecode, panic, last_call, frames, sliceHistory, snap,
                   paused, killed, deviceState, jnz_log, staged, loaded_part,
                   redirected>>

\* execute_thread has returned: save pc, go to the next thread
HostFrameSave ==
    /\ Running /\ phase = "slice"
    /\ goto_next_thread
    /\ threads' = [threads EXCEPT ![thread_id].pc = SavedPc]
    /\ thread_id' = thread_id + 1
    /\ phase' = "frame"
    /\ ran' = [ran EXCEPT ![Len(ran)].saved = script_ptr - seg_bytecode]
    /\ paused' = [t \in IF last_op = "pause"
                         THEN DOMAIN paused \cup {thread_id}
                         ELSE DOMAIN paused \ {thread_id}
                     |-> IF t = thread_id THEN script_ptr - seg_bytecode
                         ELSE paused[t]]
    /\ killed' = IF last_op = "kill" THEN killed \cup {thread_id}
                                     ELSE killed \ {thread_id}
    /\ ops' = 0 /\ last_op' = "none" /\ calls' = <<>> /\ popped' = NoCall
    /\ effect' = NoEffect
    /\ UNCHANGED <<variables, requested_next_part, script_ptr, stack_ptr,
                   goto_next_thread, script_stack_calls, seg_bytecode, panic,
                   last_call, frames, snap, deviceState, jnz_log, staged,
                   loaded_part, redirected>>

HostFrameEnd ==
    /\ Running /\ phase = "frame"
    /\ thread_id = NUM_THREADS
    /\ phase' = "idle"
    /\ last_call' = "host_frame"
    /\ snap' = NoSnap
    /\ ran' = <<>>
    /\ loaded_part' = None
    /\ UNCHANGED <<vmState, thread_id, panic, frames, sliceHistory, paused,
                   killed, deviceState, jnz_log, staged, redirected>>

-----------------------------------------------------------------------------
(* execute_thread: one opcode per step, while !goto_next_thread *)

Executing == Running /\ phase = "slice" /\ ~goto_next_thread

OpStep(name) ==
    /\ Executing
    /\ ops' = ops + 1
    /\ last_op' = name

OpYield(name) ==
    /\ Executing
    /\ ops' = ops
    /\ last_op' = name

hostState == <<phase, thread_id, last_call, frames, snap, ran, paused, killed,
               loaded_part, redirected>>

\* op_call: the opcode byte, then the operand word
OpCall(offset) ==
    /\ OpStep("call")
    /\ popped' = NoCall
    /\ effect' = NoEffect
    /\ IF PushSlot >= STACK_SIZE
       THEN \* the store indexes past the array: the process aborts
            /\ panic' = "index out of bounds"
            /\ script_ptr' = script_ptr + 3
            /\ UNCHANGED <<script_stack_calls, stack_ptr, calls>>
       ELSE /\ script_stack_calls' =
                   [script_stack_calls EXCEPT ![PushSlot] = ReturnAddress]
            /\ IF stack_ptr = STACK_SIZE
               THEN /\ panic' = "Stack overflow"
                    /\ script_ptr' = script_ptr + 3
                    /\ UNCHANGED <<stack_ptr, calls>>
               ELSE /\ stack_ptr' = stack_ptr + 1
                    /\ script_ptr' = seg_bytecode + offset
                    /\ calls' = Append(calls, [ret |-> script_ptr + 3 - seg_bytecode,
                                               sp |-> stack_ptr])
                    /\ UNCHANGED panic
    /\ UNCHANGED <<variables, threads, requested_next_part, goto_next_thread,
                   seg_bytecode, hostState, deviceState, jnz_log, staged>>

\* mutant: a ret on the empty stack leaves the stack pointer at 0 and goes on
OpRetClamped ==
    /\ OpStep("ret")
    /\ effect' = NoEffect
    /\ IF stack_ptr = 0
       THEN /\ script_ptr' = RetTarget(0)
            /\ UNCHANGED <<stack_ptr, calls, popped, panic>>
       ELSE /\ stack_ptr' = stack_ptr - 1
            /\ script_ptr' = RetTarget(stack_ptr - 1)
            /\ popped' = calls[Len(calls)]
            /\ calls' = SubSeq(calls, 1, Len(calls) - 1)
            /\ UNCHANGED panic
    /\ UNCHANGED <<variables, threads, requested_next_part, goto_next_thread,
                   script_stack_calls, seg_bytecode,
                   hostState, deviceState, jnz_log, staged>>

OpRet ==
    /\ OpStep("ret")
    /\ effect' = NoEffect
    /\ IF stack_ptr = 0
       THEN /\ panic' = "Stack underflow!"
            /\ script_ptr' = script_ptr + 1
            /\ UNCHANGED <<stack_ptr, calls, popped>>
       ELSE /\ stack_ptr' = stack_ptr - 1
            /\ script_ptr' = RetTarget(stack_ptr - 1)
            /\ popped' = calls[Len(calls)]
            /\ calls' = SubSeq(calls, 1, Len(calls) - 1)
            /\ UNCHANGED panic
    /\ UNCHANGED <<variables, threads, requested_next_part, goto_next_thread,
                   script_stack_calls, seg_bytecode,
                   hostState, deviceState, jnz_log, staged>>

OpPauseThread ==
    /\ OpYield("pause")
    /\ script_ptr' = script_ptr + 1
    /\ goto_next_thread' = TRUE
    /\ popped' = NoCall
    /\ effect' = NoEffect
    /\ UNCHANGED <<variables, threads, requested_next_part, stack_ptr,
                   script_stack_calls, seg_bytecode, panic, calls,
                   hostState, deviceState, jnz_log, staged>>

OpJmp(pc_offset) ==
    /\ OpStep("jmp")
    /\ script_ptr' = seg_bytecode + pc_offset
    /\ popped' = NoCall
    /\ effect' = NoEffect
    /\ UNCHANGED <<variables, threads, requested_next_part, stack_ptr,
                   goto_next_thread, script_stack_calls, seg_bytecode, panic,
                   calls, hostState, deviceState, jnz_log, staged>>

\* staged after a redirect to `offset` is executed for `target`
Stage(target, offset) ==
    [t \in DOMAIN staged \cup {target} |->
        IF t = target THEN offset ELSE staged[t]]

\* mutant: a redirect is staged only when none is staged for the target
OpSetSetVectFirstWins(target, pc_offset_requested) ==
    /\ OpStep("set_set_vect")
    /\ script_ptr' = script_ptr + 4
    /\ popped' = NoCall
    /\ effect' = [op |-> "set_set_vect", target |-> target,
                  offset |-> pc_offset_requested,
                  replaced |-> IF target \in DOMAIN staged
                               THEN staged[target] ELSE None]
    /\ IF target >= NUM_THREADS
       THEN /\ panic' = "index out of bounds"
            /\ UNCHANGED <<threads, staged>>
       ELSE /\ threads' =
                  IF threads[target].requested_pc_offset = None
                  THEN [threads EXCEPT
                           ![target].requested_pc_offset = pc_offset_requested]
                  ELSE threads
            /\ staged' = Stage(target, pc_offset_requested)
            /\ UNCHANGED panic
    /\ UNCHANGED <<variables, requested_next_part, stack_ptr, goto_next_thread,
                   script_stack_calls, seg_bytecode, calls,
                   hostState, deviceState, jnz_log>>

\* mutant: the redirect written to the target's pc at once
OpSetSetVectNow(target, pc_offset_requested) ==
    /\ OpStep("set_set_vect")
    /\ script_ptr' = script_ptr + 4
    /\ popped' = NoCall
    /\ effect' = [op |-> "set_set_vect", target |-> target,
                  offset |-> pc_offset_requested,
                  replaced |-> IF target \in DOMAIN staged
                               THEN staged[target] ELSE None]
    /\ IF target >= NUM_THREADS
       THEN /\ panic' = "index out of bounds"
            /\ UNCHANGED <<threads, staged>>
       ELSE /\ threads' = [threads EXCEPT ![target].pc = pc_offset_requested]
            /\ staged' = Stage(target, pc_offset_requested)
            /\ UNCHANGED panic
    /\ UNCHANGED <<variables, requested_next_part, stack_ptr, goto_next_thread,
                   script_stack_calls, seg_bytecode, calls,
                   hostState, deviceState, jnz_log>>

OpSetSetVect(target, pc_offset_requested) ==
    /\ OpStep("set_set_vect")
    /\ script_ptr' = script_ptr + 4
    /\ popped' = NoCall
    /\ effect' = [op |-> "set_set_vect", target |-> target,
                  offset |-> pc_offset_requested,
                  replaced |-> IF target \in DOMAIN staged
                               THEN staged[target] ELSE None]
    /\ IF target >= NUM_THREADS
       THEN /\ panic' = "index out of bounds"
            /\ UNCHANGED <<threads, staged>>
       ELSE /\ threads' = [threads EXCEPT
                              ![target].requested_pc_offset = pc_offset_requested]
            /\ staged' = Stage(target, pc_offset_requested)
            /\ UNCHANGED panic
    /\ UNCHANGED <<variables, requested_next_part, stack_ptr, goto_next_thread,
                   script_stack_calls, seg_bytecode, calls,
                   hostState, deviceState, jnz_log>>

OpKillThread ==
    /\ OpYield("kill")
    /\ script_ptr' = KillPtr
    /\ goto_next_thread' = TRUE
    /\ popped' = NoCall
    /\ effect' = NoEffect
    /\ UNCHANGED <<variables, threads, requested_next_part, stack_ptr,
                   script_stack_calls, seg_bytecode, panic, calls,
                   hostState, deviceState, jnz_log, staged>>

\* mutant: only the ids above GAME_PART_FIRST are parts
RequestedPartAbove(resource_id) ==
    IF resource_id = 0
    THEN requested_next_part
    ELSE IF resource_id > GAME_PART_FIRST
         THEN resource_id
         ELSE requested_next_part

\* op_update_memlist: requested_next_part after the opcode
RequestedPart(resource_id) ==
    IF resource_id = 0
    THEN requested_next_part           \* resource.invalidate_resource()
    ELSE IF resource_id >= GAME_PART_FIRST
         THEN resource_id
         ELSE requested_next_part      \* resource.load_memory_entry(id)

\* op_update_memlist: the call it makes to the loader
LoaderCall(resource_id) ==
    IF resource_id = 0
    THEN "invalidate_resource"
    ELSE IF resource_id >= GAME_PART_FIRST
         THEN "none"
         ELSE "load_memory_entry"

\* mutant: the part is switched by the opcode itself
OpUpdateMemlistNow(resource_id) ==
    /\ OpStep("update_memlist")
    /\ script_ptr' = script_ptr + 3
    /\ popped' = NoCall
    /\ effect' = [op |-> "update_memlist", resource_id |-> resource_id,
                  loader |-> LoaderCall(resource_id)]
    /\ requested_next_part' = requested_next_part
    /\ threads' = IF RequestedPart(resource_id) # requested_next_part
                  THEN InitForPartThreads ELSE threads
    /\ UNCHANGED <<variables, stack_ptr, goto_next_thread,
                   script_stack_calls, seg_bytecode, panic, calls,
                   hostState, deviceState, jnz_log, staged>>

OpUpdateMemlist(resource_id) ==
    /\ OpStep("update_memlist")
    /\ script_ptr' = script_ptr + 3
    /\ popped' = NoCall
    /\ effect' = [op |-> "update_memlist", resource_id |-> resource_id,
                  loader |-> LoaderCall(resource_id)]
    /\ requested_next_part' = RequestedPart(resource_id)
    /\ UNCHANGED <<variables, threads, stack_ptr, goto_next_thread,
                   script_stack_calls, seg_bytecode, panic, calls,
                   hostState, deviceState, jnz_log, staged>>

-----------------------------------------------------------------------------
(* The opcodes that read and write variables *)

\* mutant: the jump taken while the counter is positive
JnzJumpsWhilePositive(value) == value > 0

\* op_jnz: the test on the decremented variable
JnzJumps(value) == value # 0

\* op_jnz: the opcode byte, the variable byte, then the target word (fetched
\* by op_jmp or skipped)
OpJnz(i, pc_offset) ==
    /\ OpStep("jnz")
    /\ popped' = NoCall
    /\ LET value == AsI16(variables[i] - 1)
       IN  /\ variables' = [variables EXCEPT ![i] = value]
           /\ script_ptr' = IF JnzJumps(value)
                            THEN seg_bytecode + pc_offset
                            ELSE script_ptr + 4
           /\ jnz_log' = Append(jnz_log, [before |-> variables[i],
                                          jumped |-> JnzJumps(value)])
    /\ effect' = [op |-> "jnz", i |-> i, pc_offset |-> pc_offset]
    /\ UNCHANGED <<threads, requested_next_part, stack_ptr, goto_next_thread,
                   script_stack_calls, seg_bytecode, panic, calls, hostState,
                   deviceState, staged>>

\* op_cond_jmp: the operand a, from what follows the variable byte
CondOperand(opcode, operand) ==
    IF BitSet(opcode, 128)
    THEN variables[operand]
    ELSE IF BitSet(opcode, 64)
         THEN AsI16(operand)
         ELSE operand

\* op_cond_jmp: bytes of the operand a
CondOperandLen(opcode) ==
    IF BitSet(opcode, 128) THEN 1 ELSE IF BitSet(opcode, 64) THEN 2 ELSE 1

\* mutant: comparator 3 tests b > a
CondHoldsGeStrict(opcode, b, a) ==
    CASE opcode % 8 = 0 -> b = a
      [] opcode % 8 = 1 -> b # a
      [] opcode % 8 = 2 -> b > a
      [] opcode % 8 = 3 -> b > a
      [] opcode % 8 = 4 -> b < a
      [] opcode % 8 = 5 -> b <= a
      [] OTHER -> FALSE

\* op_cond_jmp: the match on opcode & 7
CondHolds(opcode, b, a) ==
    CASE opcode % 8 = 0 -> b = a
      [] opcode % 8 = 1 -> b # a
      [] opcode % 8 = 2 -> b > a
      [] opcode % 8 = 3 -> b >= a
      [] opcode % 8 = 4 -> b < a
      [] opcode % 8 = 5 -> b <= a
      [] OTHER -> FALSE

\* op_cond_jmp: the opcode byte, the condition byte, the variable byte, the
\* operand, then the target word (fetched by op_jmp or skipped)
OpCondJmp(opcode, var, operand, pc_offset) ==
    /\ OpStep("cond_jmp")
    /\ popped' = NoCall
    /\ LET b == variables[var]
           a == CondOperand(opcode, operand)
       IN  script_ptr' = IF CondHolds(opcode, b, a)
                         THEN seg_bytecode + pc_offset
                         ELSE script_ptr + 3 + CondOperandLen(opcode) + 2
    /\ effect' = [op |-> "cond_jmp", opcode |-> opcode, var |-> var,
                  operand |-> operand, pc_offset |-> pc_offset]
    /\ UNCHANGED <<variables, threads, requested_next_part, stack_ptr,
                   goto_next_thread, script_stack_calls, seg_bytecode, panic,
                   calls, hostState, deviceState, jnz_log, staged>>

\* op_mov_const: the opcode byte, the variable byte, then the value word
OpMovConst(variable_id, value) ==
    /\ OpStep("mov_const")
    /\ popped' = NoCall
    /\ script_ptr' = script_ptr + 4
    /\ variables' = [variables EXCEPT ![variable_id] = AsI16(value)]
    /\ effect' = [op |-> "mov_const", variable_id |-> variable_id,
                  value |-> value]
    /\ UNCHANGED <<threads, requested_next_part, stack_ptr, goto_next_thread,
                   script_stack_calls, seg_bytecode, panic, calls, hostState,
                   deviceState, jnz_log, staged>>

-----------------------------------------------------------------------------
(* Video and the page opcodes *)

\* mutant: 0xfe and 0xff name each other's pointer
GetPageIdAliasesSwapped(page_id) ==
    IF page_id <= 3 THEN page_id
    ELSE IF page_id = 255 THEN cur_page_ptr2
         ELSE IF page_id = 254 THEN cur_page_ptr3
              ELSE 0

\* Video::get_page_id
GetPageId(page_id) ==
    IF page_id <= 3 THEN page_id
    ELSE IF page_id = 255 THEN cur_page_ptr3
         ELSE IF page_id = 254 THEN cur_page_ptr2
              ELSE 0

\* Video::get_page: the page, by value
GetPage(page_id) == pages[GetPageId(page_id)]

\* Video::fill_video_page: the byte written, (color << 4) | color in a u8
FillByte(color) == BitOr((color * 16) % 256, color)

\* Video::fill_video_page: Video.pages once it has returned. The loop fills
\* `page`, the copy get_page returned, which is then dropped.
FillVideoPage(page_id, color) ==
    LET page == [i \in DOMAIN GetPage(page_id) |-> FillByte(color)]
    IN  pages

\* op_select_video_page: the opcode byte, then the page byte
OpSelectVideoPage(frame_buffer_id) ==
    /\ OpStep("select_video_page")
    /\ popped' = NoCall
    /\ script_ptr' = script_ptr + 2
    /\ cur_page_ptr1' = GetPageId(frame_buffer_id)
    /\ effect' = [op |-> "select_video_page", page_id |-> frame_buffer_id]
    /\ UNCHANGED <<variables, threads, requested_next_part, stack_ptr,
                   goto_next_thread, script_stack_calls, seg_bytecode, panic,
                   calls, hostState, pages, cur_page_ptr2, cur_page_ptr3,
                   video_buffer_seg, last_timestamp, clock, jnz_log, staged>>

\* op_fill_video_page: the opcode byte, the page byte, then the color byte
OpFillVideoPage(page_id, color) ==
    /\ OpStep("fill_video_page")
    /\ popped' = NoCall
    /\ script_ptr' = script_ptr + 3
    /\ pages' = FillVideoPage(page_id, color)
    /\ effect' = [op |-> "fill_video_page", page_id |-> page_id,
                  color |-> color]
    /\ UNCHANGED <<variables, threads, requested_next_part, stack_ptr,
                   goto_next_thread, script_stack_calls, seg_bytecode, panic,
                   calls, hostState, cur_page_ptr1, cur_page_ptr2,
                   cur_page_ptr3, video_buffer_seg, last_timestamp, clock,
                   jnz_log, staged>>

\* Video::update_display: presents a page; the pages and the three
\* pointers stay as they are
UpdateDisplay(page_id) ==
    UNCHANGED <<pages, cur_page_ptr1, cur_page_ptr2, cur_page_ptr3>>

\* op_blit_frame_buffer: the opcode byte, then the page byte. `elapsed` is
\* the time since the clock was last read; overflow_checks tells whether the
\* build aborts on an arithmetic overflow or wraps.
OpBlitFrameBuffer(page_id, elapsed, overflow_checks) ==
    /\ OpStep("blit_frame_buffer")
    /\ popped' = NoCall
    /\ script_ptr' = script_ptr + 2
    /\ LET now == clock + elapsed
           delay == now - last_timestamp
           slices == variables[VM_VARIABLE_PAUSE_SLICES]
           \* `as u64` sign-extends: a negative value overflows the product
           budget == slices * 20
           time_to_sleep == budget - delay
           overflows == \/ U64Less(now, last_timestamp)
                        \/ slices < 0
                        \/ U64Less(budget, delay)
       IN  /\ effect' = [op |-> "blit_frame_buffer", page_id |-> page_id,
                         now |-> now, last |-> last_timestamp,
                         slept |-> IF overflows /\ overflow_checks THEN 0
                                   ELSE time_to_sleep]
           /\ IF overflows /\ overflow_checks
              THEN /\ panic' = "arithmetic overflow"
                   /\ clock' = now
                   /\ UNCHANGED <<variables, last_timestamp>>
              ELSE IF time_to_sleep < 0
                   THEN \* sleep(2^64 + time_to_sleep): it does not return
                        /\ panic' = "asleep"
                        /\ clock' = now
                        /\ UNCHANGED <<variables, last_timestamp>>
                   ELSE /\ clock' = now + time_to_sleep
                        /\ last_timestamp' = now + time_to_sleep
                        /\ variables' = [variables EXCEPT ![247] = 0]
                        /\ UNCHANGED panic
    /\ UpdateDisplay(page_id)
    /\ UNCHANGED <<threads, requested_next_part, stack_ptr, goto_next_thread,
                   script_stack_calls, seg_bytecode, calls, hostState,
                   video_buffer_seg, jnz_log, staged>>

-----------------------------------------------------------------------------
(* Polygons *)

\* a / b of Rust on signed integers: the quotient rounded towards zero
TruncDiv(a, b) == IF a >= 0 THEN a \div b ELSE -((-a) \div b)

NoPolygon == [bbw |-> None, bbh |-> None, points |-> <<>>]

\* Polygon::read_vertices: `b as u16 * zoom / 64`
ScaleU16(b, zoom, overflow_checks) ==
    IF b * zoom > 65535 /\ overflow_checks
    THEN [panic |-> "read_vertices: attempt to multiply with overflow",
          value |-> None]
    ELSE [panic |-> "", value |-> AsU16(b * zoom) \div 64]

\* Polygon::read_vertices: `b as i16 * zoom / 64`, zoom being `zoom as i16`
ScaleI16(b, zoom, overflow_checks) ==
    LET product == b * AsI16(zoom)
    IN  IF (product > 32767 \/ product < -32768) /\ overflow_checks
        THEN [panic |-> "read_vertices: attempt to multiply with overflow",
              value |-> None]
        ELSE [panic |-> "", value |-> TruncDiv(AsI16(product), 64)]

\* mutant: the assertion without its parity half
ValidNumPointsAnyParity(num_points) == num_points < MAX_POINTS

\* Polygon::read_vertices: `(num_points & 1) == 0 && num_points < MAX_POINTS`
ValidNumPoints(num_points) == num_points % 2 = 0 /\ num_points < MAX_POINTS

\* Polygon::read_vertices on the bytes poly.bbw, poly.bbh, poly.num_points
\* and the pairs of bytes poly.pts that follow them in the buffer: the
\* polygon, or the reason of the abort, and the number of pairs it fetched
ReadVertices(poly, zoom, overflow_checks) ==
    LET bbw == ScaleU16(poly.bbw, zoom, overflow_checks)
        bbh == ScaleU16(poly.bbh, zoom, overflow_checks)
        num_points == poly.num_points
        xs == [j \in 1 .. num_points |->
                  ScaleI16(poly.pts[j][1], zoom, overflow_checks)]
        ys == [j \in 1 .. num_points |->
                  ScaleI16(poly.pts[j][2], zoom, overflow_checks)]
        bad == {j \in 1 .. num_points :
                   xs[j].panic # "" \/ ys[j].panic # ""}
        first == CHOOSE j \in bad : \A k \in bad : j <= k
    IN  IF bbw.panic # ""
        THEN [panic |-> bbw.panic, polygon |-> NoPolygon, vertices |-> 0]
        ELSE IF bbh.panic # ""
        THEN [panic |-> bbh.panic, polygon |-> NoPolygon, vertices |-> 0]
        ELSE IF ~ValidNumPoints(num_points)
        THEN [panic |-> "assertion failed", polygon |-> NoPolygon,
              vertices |-> 0]
        ELSE IF bad # {}
        THEN [panic |-> "read_vertices: attempt to multiply with overflow",
              polygon |-> NoPolygon, vertices |-> first]
        ELSE [panic |-> "",
              polygon |-> [bbw |-> bbw.value, bbh |-> bbh.value,
                           points |-> [j \in 1 .. num_points |->
                                          [x |-> xs[j].value,
                                           y |-> ys[j].value]]],
              vertices |-> num_points]

\* Video::read_and_draw_polygon on the bytes of poly, poly.i the first:
\* fill_polygon and read_and_draw_polygon_hierarchy are unimplemented!
ReadAndDrawPolygon(poly, zoom, overflow_checks) ==
    IF poly.i >= 192
    THEN LET read == ReadVertices(poly, zoom, overflow_checks)
         IN  IF read.panic # "" THEN read
             ELSE [panic |-> "not implemented: fill_polygon",
                   polygon |-> read.polygon, vertices |-> read.vertices]
    ELSE IF poly.i % 64 = 2
         THEN [panic |-> "not implemented: read_and_draw_polygon_hierarchy",
               polygon |-> NoPolygon, vertices |-> 0]
         ELSE [panic |-> "", polygon |-> NoPolygon, vertices |-> 0]

-----------------------------------------------------------------------------
(* op_draw_poly_sprite *)

\* mutant: the x field is two bytes unless bit 0x20 is set
DrawXLenOneBit(val) == IF ~BitSet(val, 32) THEN 2 ELSE 1

\* bytes fetched for x
DrawXLen(val) == IF ~BitSet(val, 32) /\ ~BitSet(val, 16) THEN 2 ELSE 1

\* x, from the bytes x1 and (when it is fetched) x2
DrawX(val, x1, x2) ==
    IF ~BitSet(val, 32)
    THEN IF ~BitSet(val, 16) THEN AsI16(x1 * 256 + x2) ELSE variables[x1]
    ELSE IF BitSet(val, 16) THEN x1 + 256 ELSE x1

\* bytes fetched for y
DrawYLen(val) == IF ~BitSet(val, 8) /\ ~BitSet(val, 4) THEN 2 ELSE 1

\* y, from the bytes y1 and (when it is fetched) y2
DrawY(val, y1, y2) ==
    IF ~BitSet(val, 8)
    THEN IF ~BitSet(val, 4) THEN AsI16(y1 * 256 + y2) ELSE variables[y1]
    ELSE y1

\* bytes consumed for zoom: the byte fetched is given back (script_ptr -= 1)
\* when the zoom is the default
DrawZoomLen(val) ==
    IF ~BitSet(val, 2)
    THEN IF ~BitSet(val, 1) THEN 0 ELSE 1
    ELSE IF BitSet(val, 1) THEN 0 ELSE 1

\* zoom, from the byte z
DrawZoom(val, z) ==
    IF ~BitSet(val, 2)
    THEN IF ~BitSet(val, 1) THEN 64 ELSE AsU16(variables[z])
    ELSE IF BitSet(val, 1) THEN 64 ELSE z

\* video_buffer_seg once the zoom is decoded
DrawSeg(val) ==
    IF BitSet(val, 2) /\ BitSet(val, 1) THEN "Video2" ELSE "Cinematic"

\* op_draw_poly_sprite: the opcode byte val, the offset word, then x, y and
\* zoom as val tells; poly is what the polygon segment holds at the offset
OpDrawPolySprite(val, word, x1, x2, y1, y2, z, poly, overflow_checks) ==
    /\ OpStep("draw_poly_sprite")
    /\ popped' = NoCall
    /\ IF word * 2 > 65535 /\ overflow_checks
       THEN \* `fetch_word() * 2` in u16
            /\ script_ptr' = script_ptr + 3
            /\ panic' = "offset: attempt to multiply with overflow"
            /\ effect' = [op |-> "draw_poly_sprite", val |-> val,
                          decoded |-> FALSE]
            /\ UNCHANGED video_buffer_seg
       ELSE LET x == DrawX(val, x1, x2)
                y == DrawY(val, y1, y2)
                zoom == DrawZoom(val, z)
                drawn == ReadAndDrawPolygon(poly, zoom, overflow_checks)
            IN  /\ script_ptr' = script_ptr + 3 + DrawXLen(val)
                                     + DrawYLen(val) + DrawZoomLen(val)
                /\ video_buffer_seg' = DrawSeg(val)
                /\ panic' = drawn.panic
                /\ effect' = [op |-> "draw_poly_sprite", val |-> val,
                              decoded |-> TRUE,
                              bytes |-> <<x1, x2, y1, y2, z>>,
                              offset |-> AsU16(word * 2),
                              x |-> x, y |-> y, zoom |-> zoom,
                              poly |-> poly, polygon |-> drawn.polygon,
                              vertices |-> drawn.vertices]
    /\ UNCHANGED <<variables, threads, requested_next_part, stack_ptr,
                   goto_next_thread, script_stack_calls, seg_bytecode, calls,
                   hostState, pages, cur_page_ptr1, cur_page_ptr2,
                   cur_page_ptr3, last_timestamp, clock, jnz_log, staged>>

-----------------------------------------------------------------------------
(* The opcodes that do nothing, and those that have no arm *)

\* an opcode that fetches `len` operand bytes and returns
OpConsume(name, len) ==
    /\ OpStep(name)
    /\ popped' = NoCall
    /\ script_ptr' = script_ptr + 1 + len
    /\ effect' = [op |-> name]
    /\ UNCHANGED <<variables, threads, requested_next_part, stack_ptr,
                   goto_next_thread, script_stack_calls, seg_bytecode, panic,
                   calls, hostState, deviceState, jnz_log, staged>>

\* op_play_sound: a word and three bytes, then warn!
OpPlaySound == OpConsume("play_sound", 5)

\* op_play_music: two words and a byte, then warn!
OpPlayMusic == OpConsume("play_music", 5)

\* op_draw_string: a word and three bytes; Video::draw_string only logs
OpDrawString == OpConsume("draw_string", 5)

\* execute_thread: the last arm of the match, unimplemented!
OpUnimplemented ==
    /\ OpStep("unimplemented")
    /\ popped' = NoCall
    /\ script_ptr' = script_ptr + 1
    /\ panic' = "not implemented: Unimplemented opcode"
    /\ effect' = [op |-> "unimplemented"]
    /\ UNCHANGED <<variables, threads, requested_next_part, stack_ptr,
                   goto_next_thread, script_stack_calls, seg_bytecode, calls,
                   hostState, deviceState, jnz_log, staged>>

-----------------------------------------------------------------------------
(* The scheduler and the opcodes that act on threads and parts *)

Host ==
    \/ \E p \in PartIds : InitForPart(p)
    \/ CheckThreadRequests
    \/ HostFrameBegin
    \/ HostFrameThread
    \/ HostFrameSave
    \/ HostFrameEnd

Next ==
    \/ Host
    \/ OpPauseThread
    \/ OpKillThread
    \/ ops < MaxOps /\ OpJmp(SET_INACTIVE_THREAD)
    \/ ops < MaxOps /\ \E t \in ThreadOperands, x \in VectOffsets : OpSetSetVect(t, x)
    \/ ops < MaxOps /\ \E r \in ResourceIds : OpUpdateMemlist(r)

Spec == Init /\ [][Next]_vars

(* The call stack: every mix of up to MaxStackOps calls, returns and jumps *)
(* in a slice, and, in the last frame explored, the unbroken run of calls   *)
(* down to the end of the stack                                            *)

OnlyCalls == Len(calls) = ops /\ frames = MaxFrames

NextStack ==
    \/ Host
    \/ OpPauseThread
    \/ (ops < MaxStackOps \/ OnlyCalls) /\ \E x \in CallTargets : OpCall(x)
    \/ (ops < MaxStackOps \/ OnlyCalls) /\ OpRet
    \/ ops < MaxStackOps /\ \E x \in JmpTargets : OpJmp(x)

SpecStack == Init /\ [][NextStack]_vars

(* The variables: up to MaxVarOps jnz and cond_jmp in a slice, from each    *)
(* seed                                                                    *)

NextVars ==
    \/ Host
    \/ OpPauseThread
    \/ ops < MaxVarOps /\ \E i \in JnzVars, x \in CallTargets : OpJnz(i, x)
    \/ ops < MaxCondOps /\ \E c \in CondOpcodes, x \in CallTargets :
                             \E a \in CondOperands(c) :
                                OpCondJmp(c, VM_VARIABLE_RANDOM_SEED, a, x)

SpecVars == InitSeeded /\ [][NextVars]_vars

(* The video pages, the pacing of blit and the opcodes left out: every mix *)
(* of up to MaxVideoOps of them in a slice                                 *)

NextVideo ==
    \/ Host
    \/ OpPauseThread
    \/ ops < MaxVideoOps /\ \E v \in MovVars, w \in MovWords : OpMovConst(v, w)
    \/ ops < MaxVideoOps /\ \E p \in PageOperands : OpSelectVideoPage(p)
    \/ ops < MaxVideoOps /\ \E p \in FillOperands, c \in ColorOperands :
                               OpFillVideoPage(p, c)
    \/ ops < MaxVideoOps /\ \E e \in Elapsed, b \in BOOLEAN :
                               OpBlitFrameBuffer(255, e, b)
    \/ ops < MaxVideoOps /\ OpPlaySound
    \/ ops < MaxVideoOps /\ OpPlayMusic
    \/ ops < MaxVideoOps /\ OpDrawString
    \/ ops < MaxVideoOps /\ OpUnimplemented

SpecVideo == Init /\ [][NextVideo]_vars

(* The loader: up to MaxLoadOps update_memlist in a slice, with ids on     *)
(* both sides of the lowest part, and stores to the variable init_for_part *)
(* writes                                                                  *)

NextLoader ==
    \/ Host
    \/ OpPauseThread
    \/ ops < MaxLoadOps /\ \E r \in MemlistIds : OpUpdateMemlist(r)
    \/ ops < MaxLoadOps /\ OpMovConst(228, 1)

SpecLoader == Init /\ [][NextLoader]_vars

(* The polygons: up to MaxDrawOps draw_poly_sprite in a slice, with every  *)
(* discriminator                                                           *)

NextDraw ==
    \/ Host
    \/ OpPauseThread
    \/ ops < MaxDrawOps /\
          \E val \in DrawVals :
             \E word \in OffsetWords(val), poly \in PolygonsAt(val),
                x1 \in DrawOperands(BitSet(val, 16) /\ ~BitSet(val, 32)),
                y1 \in DrawOperands(BitSet(val, 4) /\ ~BitSet(val, 8)),
                z \in ZoomOperands(BitSet(val, 1) /\ ~BitSet(val, 2)) :
                \E b \in BOOLEAN :
                   OpDrawPolySprite(val, word, x1, 255, y1, 255, z, poly, b)

SpecDraw == Init /\ [][NextDraw]_vars

-----------------------------------------------------------------------------
(* Properties *)

InFrame == phase \in {"frame", "slice"}

\* the threads that have executed, or are executing, a slice in this frame
RanIds == {ran[i].id : i \in 1 .. Len(ran)}

\* host_frame has reached thread t in this frame
Serviced(t) == InFrame /\ (t < thread_id \/ (phase = "slice" /\ t = thread_id))

\* steps of the interpreter, told by the history of the slice
StepOf(name) == phase = "slice" /\ ~goto_next_thread /\ last_op' = name
                    /\ (ops' = ops + 1 \/ goto_next_thread')

\* steps of the host, told by the method that returned last
CheckStep == last_call # "check_thread_requests"
                 /\ last_call' = "check_thread_requests"

InitStep == last_call # "init_for_part" /\ last_call' = "init_for_part"

\* C1: a set-thread-vector opcode leaves every thread's pc and current flag
\* as they are, whatever the target; a thread's pc changes only when its own
\* slice is saved or between frames; and the slices of a frame are those of
\* the threads that were due when the frame began, each started at the pc
\* the thread had then, also when a redirect was staged for it meanwhile.
C1_TwoPhaseRedirect ==
    /\ [][StepOf("set_set_vect") =>
            \A t \in ThreadIds :
               /\ threads'[t].pc = threads[t].pc
               /\ threads'[t].is_channel_active_current =
                      threads[t].is_channel_active_current]_vars
    /\ [][\A t \in ThreadIds :
            threads'[t].pc # threads[t].pc =>
               \/ phase = "idle"
               \/ phase = "slice" /\ goto_next_thread /\ t = thread_id]_vars
    /\ [](InFrame =>
            \A i \in 1 .. Len(ran) :
               /\ Snap(ran[i].id).pc # INACTIVE_THREAD
               /\ ran[i].start = Snap(ran[i].id).pc)
    /\ [](\A t \in ThreadIds :
            Serviced(t) /\ Snap(t).pc # INACTIVE_THREAD
                        /\ ~Snap(t).is_channel_active_current
               => t \in RanIds)

\* thread 63 starts its slice at its old pc although a redirect was staged
\* for it by thread 0 earlier in the same frame
C1_Witness ==
    /\ phase = "slice" /\ thread_id = NUM_THREADS - 1
    /\ Len(ran) = 2
    /\ Snap(thread_id).requested_pc_offset = None
    /\ threads[thread_id].requested_pc_offset = SET_INACTIVE_THREAD
    /\ script_ptr = seg_bytecode + Snap(thread_id).pc

\* C2: a thread that paused, with no redirect committed for it and no part
\* switch since, has the offset of the byte after the pause opcode as its pc,
\* is given a slice by the next host_frame, and that slice starts there.
C2_PauseResumes ==
    \A t \in ThreadIds :
       Paused(t) # None =>
          /\ threads[t].pc = Paused(t)
          /\ Serviced(t) => t \in RanIds
          /\ phase = "slice" /\ t = thread_id /\ ops = 0 /\ ~goto_next_thread
                => script_ptr = seg_bytecode + Paused(t)

\* C3 as claimed: the threads host_frame has reached and given a slice are
\* those whose current flag is set and whose pc is not the sentinel.
C3_RunsIffFlagSet ==
    InFrame =>
       LET ids == RanIds
       IN  \A t \in ThreadIds :
              Serviced(t) =>
                 (t \in ids <=> /\ Snap(t).is_channel_active_current
                               /\ Snap(t).pc # INACTIVE_THREAD)

\* C3: the threads host_frame has reached and given a slice are those whose
\* current flag (is_channel_active_current) is clear and whose pc is not the
\* sentinel 0xFFFF.
C3_RunsIffFlagClear ==
    InFrame =>
       LET ids == RanIds
       IN  \A t \in ThreadIds :
              Serviced(t) =>
                 (t \in ids <=> /\ ~Snap(t).is_channel_active_current
                               /\ Snap(t).pc # INACTIVE_THREAD)

\* a frame that ran thread 0, passed over threads 1..62 and ran thread 63
C3_Witness ==
    /\ phase = "frame" /\ thread_id = NUM_THREADS
    /\ RanIds = {0, NUM_THREADS - 1}

\* C4: the slices of a frame are in strictly ascending thread order, so each
\* thread has at most one; every slice but the one executing has been saved,
\* the thread's pc being the final cursor less the segment base, before the
\* next one starts.
C4_AscendingSavedSlices ==
    /\ \A i, j \in 1 .. Len(ran) : i < j => ran[i].id < ran[j].id
    /\ \A i \in 1 .. Len(ran) :
          IF phase = "slice" /\ i = Len(ran)
          THEN ran[i].id = thread_id /\ ran[i].saved = None
          ELSE /\ ran[i].saved # None
               /\ threads[ran[i].id].pc = ran[i].saved
               /\ ran[i].id < thread_id

\* thread 63 executing after thread 0's slice was saved at a moved cursor
C4_Witness ==
    /\ phase = "slice" /\ Len(ran) = 2
    /\ ran[1].id = 0 /\ ran[2].id = NUM_THREADS - 1
    /\ ran[1].saved # ran[1].start
    /\ seg_bytecode # 0

\* the pc a commit gives a thread whose staged redirect is x
Staged(x) == IF x = SET_INACTIVE_THREAD THEN INACTIVE_THREAD ELSE x

\* C5 as claimed: after check_thread_requests the two flags agree, no
\* redirect is pending, a thread that had one has the staged offset as its pc
\* (0xFFFF for the deactivation sentinel) and the others keep their pc.
C5_CommitAsClaimed ==
    [][CheckStep =>
         \A t \in ThreadIds :
            /\ threads'[t].is_channel_active_current =
                   threads[t].is_channel_active_requested
            /\ threads'[t].is_channel_active_requested =
                   threads[t].is_channel_active_requested
            /\ threads'[t].requested_pc_offset = None
            /\ threads'[t].pc =
                   IF threads[t].requested_pc_offset # None
                   THEN Staged(threads[t].requested_pc_offset)
                   ELSE threads[t].pc]_vars

\* C5: after check_thread_requests the two flags agree and no redirect is
\* pending; when no part switch was pending at the call, a thread that had a
\* redirect has the staged offset as its pc (0xFFFF for the deactivation
\* sentinel) and the others keep their pc; when a part switch was pending,
\* thread 0 has pc 0, the others 0xFFFF, and the flags are clear.
C5_Commit ==
    [][CheckStep =>
         \A t \in ThreadIds :
            /\ threads'[t].is_channel_active_current =
                   threads'[t].is_channel_active_requested
            /\ threads'[t].requested_pc_offset = None
            /\ IF requested_next_part = None
               THEN /\ threads'[t].is_channel_active_requested =
                           threads[t].is_channel_active_requested
                    /\ threads'[t].pc =
                           IF threads[t].requested_pc_offset # None
                           THEN Staged(threads[t].requested_pc_offset)
                           ELSE threads[t].pc
               ELSE /\ ~threads'[t].is_channel_active_requested
                    /\ threads'[t].pc =
                           IF t = 0 THEN 0 ELSE INACTIVE_THREAD]_vars

\* after the first frame: thread 0, which staged the deactivation sentinel
\* for itself and paused, has been made inactive by the commit
C5_Witness ==
    /\ phase = "idle" /\ last_call = "check_thread_requests" /\ frames = 1
    /\ requested_next_part = None
    /\ threads[0].pc = INACTIVE_THREAD
    /\ 0 \notin killed /\ Paused(0) = None

\* C6: when init_for_part has run, called by the host or by
\* check_thread_requests for a pending part, thread 0 has pc 0, threads 1..63
\* have pc 0xFFFF, and every thread has both flags clear and no redirect
\* pending, whatever the threads were before.
C6_FullReinit ==
    [][InitStep \/ (CheckStep /\ requested_next_part # None) =>
         \A t \in ThreadIds :
            /\ threads'[t].pc = IF t = 0 THEN 0 ELSE INACTIVE_THREAD
            /\ threads'[t].requested_pc_offset = None
            /\ ~threads'[t].is_channel_active_current
            /\ ~threads'[t].is_channel_active_requested]_vars

\* the part was switched after a frame in which threads 0 and 63 both ran:
\* thread 63, killed in that frame, is inactive and thread 0 is back at 0
C6_Witness ==
    /\ phase = "idle" /\ last_call = "check_thread_requests" /\ frames = 2
    /\ seg_bytecode = SegOfPart(GAME_PART_FIRST)
    /\ NUM_THREADS - 1 \in killed
    /\ threads[0].pc = 0
    /\ threads[NUM_THREADS - 1].pc = INACTIVE_THREAD

\* C7: update-memory-list changes no thread and does not end the slice; a
\* pending part request stays, with the segment where it is, until
\* check_thread_requests; the threads due in the frame still run; that call
\* switches the part and clears the request, and a call with no request
\* pending re-initialises nothing.
C7_DeferredPartSwitch ==
    /\ [][StepOf("update_memlist") =>
            /\ threads' = threads
            /\ ~goto_next_thread' /\ phase' = "slice"
            /\ seg_bytecode' = seg_bytecode]_vars
    /\ [][requested_next_part # None /\ ~CheckStep =>
            /\ requested_next_part' # None
            /\ seg_bytecode' = seg_bytecode]_vars
    /\ [](\A t \in ThreadIds :
            requested_next_part # None /\ Serviced(t)
               /\ Snap(t).pc # INACTIVE_THREAD
               /\ ~Snap(t).is_channel_active_current
            => t \in RanIds)
    /\ [][CheckStep /\ requested_next_part # None =>
            /\ requested_next_part' = None
            /\ seg_bytecode' = SegOfPart(requested_next_part)
            /\ threads'[0].pc = 0]_vars
    /\ [](phase = "idle" /\ last_call = "check_thread_requests"
             => requested_next_part = None)
    /\ [][CheckStep /\ requested_next_part = None =>
            /\ seg_bytecode' = seg_bytecode
            /\ variables' = variables
            /\ \A t \in ThreadIds :
                  threads[t].requested_pc_offset = None
                     => threads'[t].pc = threads[t].pc]_vars

\* the part was switched after the first frame, thread 0 ran in the second,
\* and the check after it left thread 0 where it paused
C7_Witness ==
    /\ phase = "idle" /\ last_call = "check_thread_requests" /\ frames = 2
    /\ seg_bytecode = SegOfPart(GAME_PART_FIRST)
    /\ requested_next_part = None
    /\ Paused(0) # None /\ threads[0].pc = Paused(0)

\* a thread's fields other than its pc
Rest(th) == <<th.requested_pc_offset, th.is_channel_active_current,
              th.is_channel_active_requested>>

\* C8: kill ends the slice with the cursor at the sentinel and changes no
\* thread; the save that follows sets the issuing thread's pc to 0xFFFF and
\* nothing else; and a killed thread keeps that pc and executes nothing until
\* a redirect to a normal offset is committed for it or a part switch
\* re-seeds thread 0.
C8_KillThread ==
    /\ [][StepOf("kill") =>
            /\ goto_next_thread'
            /\ script_ptr' - seg_bytecode' = INACTIVE_THREAD
            /\ threads' = threads]_vars
    /\ [][phase = "slice" /\ last_op = "kill" /\ phase' # "slice" =>
            /\ threads'[thread_id].pc = INACTIVE_THREAD
            /\ Rest(threads'[thread_id]) = Rest(threads[thread_id])
            /\ \A t \in ThreadIds \ {thread_id} : threads'[t] = threads[t]]_vars
    /\ [](\A t \in ThreadIds :
            t \in killed => /\ threads[t].pc = INACTIVE_THREAD
                         /\ ~(phase = "slice" /\ thread_id = t))

\* a frame that passed over thread 0, killed in the frame before, and ran
\* thread 63
C8_Witness ==
    /\ phase = "frame" /\ thread_id = NUM_THREADS
    /\ 0 \in killed
    /\ RanIds = {NUM_THREADS - 1}

\* C9: a ret puts the cursor at the byte after the operand word of the call
\* it matches (the last call of the slice not yet returned from) and the
\* stack pointer back at its value before that call.
C9_CallRetRoundTrip ==
    last_op = "ret" /\ Running =>
       /\ popped # NoCall
       /\ script_ptr = seg_bytecode + popped.ret
       /\ stack_ptr = popped.sp

\* the outer ret of call, call, ret, ret
C9_Witness ==
    /\ last_op = "ret" /\ Running /\ ops = 4
    /\ popped.sp = 0 /\ stack_ptr = 0
    /\ seg_bytecode # 0

CallStep == StepOf("call")

RetStep == StepOf("ret")

\* C10: a ret at stack pointer 0 aborts; a call at stack pointer 255 aborts
\* and stores nothing; a call below 255 succeeds, stores the return address
\* in its slot and raises the stack pointer by one; the stack keeps its 255
\* slots, and nothing runs once the process has aborted.
C10_StackBoundsFatal ==
    /\ [][RetStep /\ stack_ptr = 0 => panic' # ""]_vars
    /\ [][RetStep /\ stack_ptr > 0 =>
            panic' = "" /\ stack_ptr' = stack_ptr - 1]_vars
    /\ [][CallStep /\ stack_ptr >= STACK_SIZE =>
            /\ panic' # ""
            /\ script_stack_calls' = script_stack_calls
            /\ stack_ptr' = stack_ptr]_vars
    /\ [][CallStep /\ stack_ptr < STACK_SIZE =>
            /\ panic' = ""
            /\ stack_ptr' = stack_ptr + 1
            /\ script_stack_calls'[stack_ptr] = script_ptr + 3 - seg_bytecode
            /\ \A i \in 0 .. (STACK_SIZE - 1) \ {stack_ptr} :
                  script_stack_calls'[i] = script_stack_calls[i]]_vars
    /\ [](/\ DOMAIN script_stack_calls = 0 .. (STACK_SIZE - 1)
          /\ stack_ptr \in 0 .. STACK_SIZE)
    /\ [][panic = ""]_vars

\* the call made with all 255 slots taken has aborted
C10_Witness ==
    /\ panic # "" /\ last_op = "call"
    /\ stack_ptr = STACK_SIZE
    /\ Len(calls) = STACK_SIZE

SliceStart == phase = "frame" /\ phase' = "slice"

\* C18: every slice starts with the stack pointer at 0 and the yield flag
\* clear, so the depth of the stack in a slice is the number of calls of
\* that slice still open, whatever earlier slices left in the slots; a ret
\* with no call of the slice open is the fatal underflow.
C18_StackEmptyAtSliceStart ==
    /\ [][SliceStart => stack_ptr' = 0 /\ ~goto_next_thread']_vars
    /\ [](phase = "slice" => stack_ptr = Len(calls))
    /\ [][RetStep /\ Len(calls) = 0 =>
            /\ panic' = "Stack underflow!"
            /\ stack_ptr' = 0
            /\ script_stack_calls' = script_stack_calls]_vars

\* a ret as the first opcode of thread 0's second slice, the first slice
\* having called and paused without returning: underflow
C18_Witness ==
    /\ panic = "Stack underflow!" /\ last_op = "ret" /\ ops = 1
    /\ frames = 2
    /\ script_stack_calls[0] # 0
    /\ stack_ptr = 0

MemlistStep == StepOf("update_memlist")

\* C19 as claimed: id 0 calls invalidate and stages nothing; an id strictly
\* above GAME_PART_FIRST stages a part switch with no load; every other id,
\* GAME_PART_FIRST itself among them, is loaded and stages nothing.
C19_DispatchAsClaimed ==
    [][MemlistStep =>
         LET id == effect'.resource_id
         IN  CASE id = 0 ->
                    /\ effect'.loader = "invalidate_resource"
                    /\ requested_next_part' = requested_next_part
               [] id > GAME_PART_FIRST ->
                    /\ effect'.loader = "none"
                    /\ requested_next_part' = id
               [] OTHER ->
                    /\ effect'.loader = "load_memory_entry"
                    /\ requested_next_part' = requested_next_part]_vars

\* C19: id 0 calls invalidate and stages nothing; an id at or above
\* GAME_PART_FIRST stages a part switch with no load; every other id is
\* loaded and stages nothing. Three bytes are consumed and no thread changes.
C19_Dispatch ==
    [][MemlistStep =>
         LET id == effect'.resource_id
         IN  /\ CASE id = 0 ->
                       /\ effect'.loader = "invalidate_resource"
                       /\ requested_next_part' = requested_next_part
                  [] id >= GAME_PART_FIRST ->
                       /\ effect'.loader = "none"
                       /\ requested_next_part' = id
                  [] OTHER ->
                       /\ effect'.loader = "load_memory_entry"
                       /\ requested_next_part' = requested_next_part
             /\ script_ptr' = script_ptr + 3
             /\ threads' = threads
             /\ panic' = ""]_vars

\* the lowest part id staged as a part switch, nothing loaded
C19_Witness ==
    /\ last_op = "update_memlist"
    /\ effect.resource_id = GAME_PART_FIRST
    /\ effect.loader = "none"
    /\ requested_next_part = GAME_PART_FIRST

JnzStep == StepOf("jnz")

\* C11: a jnz takes 1 off the variable it names, wrapping in 16 bits, leaves
\* the other variables alone and always passes the variable byte and the
\* target word: the cursor is at the target iff the new value is not 0, and
\* past the instruction otherwise. So from a value V >= 1 the executions
\* jump V-1 times and the V-th falls through with the variable at 0; from 0
\* the variable becomes -1 and the jump is taken.
C11_Jnz ==
    /\ [][JnzStep =>
            LET i == effect'.i
            IN  /\ variables'[i] = IF variables[i] = -32768 THEN 32767
                                   ELSE variables[i] - 1
                /\ \A v \in VarIds \ {i} : variables'[v] = variables[v]
                /\ script_ptr' = IF variables'[i] # 0
                                 THEN seg_bytecode + effect'.pc_offset
                                 ELSE script_ptr + 4
                /\ panic' = ""]_vars
    /\ [](\A j \in 1 .. Len(jnz_log) :
             LET V == jnz_log[j].before
                 k == j + V - 1
             IN  /\ V >= 1 /\ k <= Len(jnz_log) =>
                       /\ \A m \in j .. (k - 1) : jnz_log[m].jumped
                       /\ ~jnz_log[k].jumped
                       /\ k = Len(jnz_log) =>
                             variables[VM_VARIABLE_RANDOM_SEED] = 0
                 /\ V = 0 =>
                       /\ jnz_log[j].jumped
                       /\ j = Len(jnz_log) =>
                             variables[VM_VARIABLE_RANDOM_SEED] = -1)

\* from 3: jump, jump, fall through, the variable at 0
C11_Witness ==
    /\ last_op = "jnz" /\ Len(jnz_log) = 3
    /\ jnz_log[1].before = 3
    /\ jnz_log[1].jumped /\ jnz_log[2].jumped /\ ~jnz_log[3].jumped
    /\ variables[VM_VARIABLE_RANDOM_SEED] = 0

CondJmpStep == StepOf("cond_jmp")

\* C12: a cond_jmp compares b, the variable it names, with a: the variable
\* named by the next byte if bit 0x80 of the condition byte is set, else the
\* next word as a signed 16-bit value if bit 0x40 is set, else the next byte.
\* The cursor is at the target iff the comparator in the low 3 bits holds
\* (0 b=a, 1 b#a, 2 b>a, 3 b>=a, 4 b<a, 5 b<=a, 6 and 7 never), and past the
\* whole instruction, target word included, otherwise; no variable changes.
C12_CondJmp ==
    [][CondJmpStep =>
         LET c == effect'.opcode
             b == variables[effect'.var]
             x == effect'.operand
             byVar == c >= 128
             byWord == ~byVar /\ (c \div 64) % 2 = 1
             a == IF byVar THEN variables[x]
                  ELSE IF byWord
                       THEN IF x >= 32768 THEN x - 65536 ELSE x
                       ELSE x
             k == c % 8
             taken == \/ k = 0 /\ b = a
                      \/ k = 1 /\ b # a
                      \/ k = 2 /\ b > a
                      \/ k = 3 /\ b >= a
                      \/ k = 4 /\ b < a
                      \/ k = 5 /\ b <= a
         IN  /\ script_ptr' = IF taken
                              THEN seg_bytecode + effect'.pc_offset
                              ELSE script_ptr + 3 + (IF byWord THEN 2 ELSE 1) + 2
             /\ variables' = variables
             /\ panic' = ""]_vars

\* b = 5 against the immediate byte 5 under comparator 2: not taken, the
\* cursor six bytes on
C12_Witness ==
    /\ last_op = "cond_jmp" /\ ops = 1
    /\ effect.opcode = 2 /\ effect.operand = 5
    /\ variables[VM_VARIABLE_RANDOM_SEED] = 5
    /\ script_ptr = seg_bytecode + 6
    /\ seg_bytecode # 0

\* the page a page byte names, as the specification of Video gives it
Resolved(page_id) ==
    CASE page_id \in 0 .. 3 -> page_id
      [] page_id = 254 -> cur_page_ptr2
      [] page_id = 255 -> cur_page_ptr3
      [] OTHER -> 0

FillStep == StepOf("fill_video_page")

\* C13: a fill sets every byte of the stored page its page byte resolves to,
\* to the color in both nibbles, and leaves the other three pages as they
\* were: after fill(1, 6) every byte of page 1 is 0x66.
C13_FillSetsStoredPage ==
    [][FillStep =>
         LET p == Resolved(effect'.page_id)
             c == effect'.color
         IN  /\ \A i \in DOMAIN pages'[p] : pages'[p][i] = 16 * c + c
             /\ \A q \in (0 .. 3) \ {p} : pages'[q] = pages[q]]_vars

SelectStep == StepOf("select_video_page")

\* C14: a select-draw-target makes the draw target the page its byte
\* resolves to: 0..3 themselves, 0xFE the value of cur_page_ptr2, 0xFF the
\* value of cur_page_ptr3, any other byte page 0, with no abort and the two
\* aliases unchanged; so the draw target is always one of the pages 0..3.
C14_PageIdResolution ==
    /\ [][SelectStep =>
            /\ cur_page_ptr1' = Resolved(effect'.page_id)
            /\ cur_page_ptr2' = cur_page_ptr2
            /\ cur_page_ptr3' = cur_page_ptr3
            /\ script_ptr' = script_ptr + 2
            /\ panic' = ""]_vars
    /\ [](cur_page_ptr1 \in 0 .. 3)

\* the draw target moved to page 1 through the alias 0xFF
C14_Witness ==
    /\ last_op = "select_video_page" /\ effect.page_id = 255
    /\ cur_page_ptr1 = 1 /\ cur_page_ptr3 = 1 /\ cur_page_ptr2 # 1
    /\ Running

\* C15: the opcodes outside the families of the interpreter abort when they
\* are decoded, the sound, music and draw-string opcodes among them: none
\* returns to the loop of the slice.
C15_UnlistedOpcodesAbort ==
    [][(\/ StepOf("play_sound") \/ StepOf("play_music")
        \/ StepOf("draw_string") \/ StepOf("unimplemented"))
          => panic' # ""]_vars

BlitStep == StepOf("blit_frame_buffer")

\* C16: with elapsed = now - last_timestamp (0 when now < last_timestamp) and
\* budget = 20 * variable 0xFF, a blit sleeps budget - elapsed milliseconds
\* when elapsed < budget and does not sleep when elapsed >= budget; it never
\* aborts and never sleeps a wrapped duration.
C16_FramePacing ==
    [][BlitStep =>
         LET now == effect'.now
             last == effect'.last
             elapsed == IF now < last THEN 0 ELSE now - last
             budget == 20 * variables[VM_VARIABLE_PAUSE_SLICES]
         IN  /\ panic' = ""
             /\ effect'.slept = IF elapsed < budget THEN budget - elapsed
                                ELSE 0]_vars

DrawStep == StepOf("draw_poly_sprite")

\* the two bits of val under the one-bit mask `low` and the one above it
Field(val, low) == (val \div low) % 4

C20_VertexScaling ==
    [][DrawStep /\ effect'.decoded /\ effect'.poly.i >= 192
           /\ effect'.poly.num_points % 2 = 0
           /\ effect'.poly.num_points < MAX_POINTS =>
         LET z == effect'.zoom
             poly == effect'.poly
             polygon == effect'.polygon
         IN  /\ panic' # "read_vertices: attempt to multiply with overflow"
             /\ polygon.bbw = (poly.bbw * z) \div 64
             /\ polygon.bbh = (poly.bbh * z) \div 64
             /\ Len(polygon.points) = poly.num_points
             /\ \A j \in 1 .. poly.num_points :
                   /\ polygon.points[j].x = (poly.pts[j][1] * z) \div 64
                   /\ polygon.points[j].y = (poly.pts[j][2] * z) \div 64]_vars

\* C21: read_vertices aborts on a vertex count that is odd or 50 or more,
\* with no vertex fetched; on an even count below 50 that assertion passes,
\* and a read_vertices that returns gives as many points as the count, the
\* j-th of them scaled from the j-th pair of bytes after the count.
C21_VertexCountValidation ==
    [][DrawStep /\ effect'.decoded /\ effect'.poly.i >= 192 =>
         LET poly == effect'.poly
             n == poly.num_points
             polygon == effect'.polygon
             z == effect'.zoom
             overflowed ==
                panic' = "read_vertices: attempt to multiply with overflow"
         IN  IF n % 2 = 1 \/ n >= 50
             THEN /\ panic' # "" /\ panic' # "not implemented: fill_polygon"
                  /\ effect'.vertices = 0
                  /\ polygon = NoPolygon
             ELSE /\ panic' # "assertion failed"
                  /\ ~overflowed =>
                        /\ Len(polygon.points) = n
                        /\ effect'.vertices = n
                        /\ \A j \in 1 .. n :
                              /\ polygon.points[j].x =
                                   ScaleI16(poly.pts[j][1], z, FALSE).value
                              /\ polygon.points[j].y =
                                   ScaleI16(poly.pts[j][2], z, FALSE).value]_vars

\* steps of check_thread_requests and of host_frame outside execute_thread
SchedulerStep ==
    \/ CheckStep
    \/ /\ last_call = "check_thread_requests"
       /\ ~(phase = "slice" /\ ~goto_next_thread)

\* C22: check_thread_requests, a part switch through init_for_part
\* included, and the steps of host_frame around the slices leave every
\* variable as it was.
C22_SchedulerKeepsVariables ==
    [][SchedulerStep => variables' = variables]_vars

InFirstFrame == loaded_part # None /\ phase \in {"frame", "slice"}

\* C23: in the host_frame that follows a part load (init_for_part called by
\* the host or by check_thread_requests for a staged part), the only slice
\* is one of thread 0, it starts at offset 0 of the segment of the loaded
\* part, and when the frame ends that slice has run; and in every frame a
\* thread other than 0 has a slice only if a redirect was committed for it
\* since the last part load.
C23_OnlyThreadZeroAfterLoad ==
    /\ [](InFirstFrame =>
            /\ seg_bytecode = SegOfPart(loaded_part)
            /\ Len(ran) <= 1
            /\ \A i \in 1 .. Len(ran) : ran[i].id = 0 /\ ran[i].start = 0)
    /\ [][InFirstFrame /\ phase = "frame" /\ phase' = "slice" =>
            thread_id' = 0 /\ script_ptr' = SegOfPart(loaded_part)]_vars
    /\ [][InFirstFrame /\ phase' = "idle" => Len(ran) = 1]_vars
    /\ [](\A i \in 1 .. Len(ran) : ran[i].id = 0 \/ ran[i].id \in redirected)

\* the frame after a committed part switch has reached the end of its loop:
\* thread 0 alone had a slice, from offset 0 of the new segment
C23_Witness ==
    /\ phase = "frame" /\ thread_id = NUM_THREADS
    /\ loaded_part = GAME_PART_FIRST
    /\ seg_bytecode = SegOfPart(GAME_PART_FIRST)
    /\ Len(ran) = 1 /\ ran[1].id = 0 /\ ran[1].start = 0
    /\ ran[1].saved # None

\* C24: when a part switch is staged and redirects were executed in the
\* frame, whoever executed them and in whichever order, the next
\* check_thread_requests leaves no redirect staged, thread 0 at offset 0 and
\* every other thread inactive, also when a redirect was executed for
\* thread 0; the segment is that of the requested part.
C24_PartSwitchWins ==
    [][CheckStep /\ requested_next_part # None /\ DOMAIN staged # {} =>
         /\ requested_next_part' = None
         /\ seg_bytecode' = SegOfPart(requested_next_part)
         /\ \A t \in ThreadIds :
               /\ threads'[t].requested_pc_offset = None
               /\ threads'[t].pc = IF t = 0 THEN 0 ELSE INACTIVE_THREAD
               /\ ~threads'[t].is_channel_active_current]_vars

\* after the second frame, in which thread 0 executed a redirect to offset
\* 16 for itself and thread 63 then staged a part switch: the switch is
\* committed, thread 0 is at offset 0 and thread 63 is inactive
C24_Witness ==
    /\ phase = "idle" /\ last_call = "check_thread_requests" /\ frames = 2
    /\ loaded_part = GAME_PART_FIRST
    /\ 0 \in DOMAIN staged /\ staged[0] = 16
    /\ threads[0].pc = 0 /\ threads[63].pc = INACTIVE_THREAD
    /\ \A t \in ThreadIds : threads[t].requested_pc_offset = None

\* C25 as claimed: a thread a redirect was executed for during a frame has
\* the offset of the last of them as its pc once check_thread_requests has
\* run (0xFFFF when the offset is the deactivation sentinel), whatever the
\* thread did in the frame.
C25_RedirectAppliedAsClaimed ==
    [][CheckStep =>
         \A t \in DOMAIN staged : threads'[t].pc = Staged(staged[t])]_vars

\* C25: a redirect executed for a thread replaces the one staged for it
\* before; and when no part switch is staged, a thread a redirect was
\* executed for during a frame has the offset of the last of them as its pc
\* once check_thread_requests has run (0xFFFF when the offset is the
\* deactivation sentinel), whatever the thread did in the frame and whatever
\* pc its slice saved.
C25_RedirectApplied ==
    /\ [][StepOf("set_set_vect") /\ panic' = "" =>
            threads'[effect'.target].requested_pc_offset = effect'.offset]_vars
    /\ [][CheckStep /\ requested_next_part = None =>
            \A t \in DOMAIN staged :
               /\ threads'[t].pc = Staged(staged[t])
               /\ threads'[t].requested_pc_offset = None]_vars

\* after the second frame, in which threads 0 and 63 both ran: the redirect
\* executed last for thread 0 was the deactivation sentinel and thread 0 is
\* inactive, and thread 63 is at the offset staged for it
C25_Witness ==
    /\ phase = "idle" /\ last_call = "check_thread_requests" /\ frames = 2
    /\ loaded_part = None
    /\ DOMAIN staged = {0, 63}
    /\ staged[0] = SET_INACTIVE_THREAD /\ threads[0].pc = INACTIVE_THREAD
    /\ staged[63] = 16 /\ threads[63].pc = 16

\* a polygon of two vertices, with more bytes after them in the buffer, is
\* read as two points in the order of the bytes
C21_Witness ==
    /\ last_op = "draw_poly_sprite"
    /\ effect.decoded /\ effect.poly.i >= 192
    /\ effect.poly.num_points = 2 /\ Len(effect.poly.pts) = 3
    /\ effect.zoom = DEFAULT_ZOOM
    /\ effect.vertices = 2
    /\ effect.polygon.points = <<[x |-> 255, y |-> 1], [x |-> 1, y |-> 255]>>
    /\ panic = "not implemented: fill_polygon"

====
